---- MODULE Spec2Model ----
(***************************************************************************)
(* The relay engine of the chat server (src/src/Server/server.cpp): a      *)
(* chain of server nodes, each with a listen loop, a relay loop and a      *)
(* neighbour-sync loop sharing one registry and one message queue.         *)
(*                                                                         *)
(* The nodes of the set `live` are simulated; every other valid chain      *)
(* position is played by the environment, which may send any sync a real   *)
(* neighbour could send.  Spec simulates one node at any chain position,   *)
(* SpecChain simulates the two leftmost nodes and the link between them.   *)
(***************************************************************************)
EXTENDS Integers, Sequences, FiniteSets, TLC

\* ------------------------------------------------------------------ bounds
MaxClients == 2
MaxQueue == 1
MaxNet == 1
MaxBacklog == 3

Identifiers == {"a", "b"}
ChainIdentifiers == {"a"}
Broadcast == "broadcast"

\* The chain: one name per server, leftmost first.
serverNames == <<"server0", "server1", "server2">>
ServerIndices == 0 .. (Len(serverNames) - 1)
ChainLive == {0, 1}
\* The node a single-node exploration of the loops simulates: a middle one.
MiddleLive == {Len(serverNames) - 2}

ClientTypes == {"CONNECTION", "DISCONNECT", "CHAT", "PRIVATE_MESSAGE"}
ChainTypes == {"CONNECTION", "DISCONNECT", "PRIVATE_MESSAGE"}
SyncTypes == {"SYNC_RIGHT", "SYNC_LEFT"}

VARIABLES
    live,
    m_connectedClients,
    m_leftAdjacentServerConnection,
    m_leftAdjacentServerConnectedClients,
    m_rightAdjacentServerConnection,
    m_rightAdjacentServerConnectedClients,
    m_messageQueue,
    relayPc,
    relayed,
    syncSent,
    crashed,
    net,
    m_terminate,
    listenPc,
    received,
    syncPc,
    syncFailed

\* The termination flag, where the listen and sync threads stand, and the
\* endpoints whose send_to threw in the sync loop's latest iteration (kept
\* where the sync loop is explored by itself).
threadVars == <<m_terminate, listenPc, received, syncPc, syncFailed>>

vars == <<live, m_connectedClients, m_leftAdjacentServerConnection,
          m_leftAdjacentServerConnectedClients, m_rightAdjacentServerConnection,
          m_rightAdjacentServerConnectedClients, m_messageQueue, relayPc, relayed,
          syncSent, crashed, net, threadVars>>

\* ---------------------------------------------------------------- topology
leftAdjacentServerIndexIsValid(index) == index >= 0
rightAdjacentServerIndexIsValid(index) == index < Len(serverNames)
serverIndexToServerName(index) == serverNames[index + 1]
ServerEndpoint(index) == "srv" \o ToString(index)

\* ------------------------------------------------------------- value types
remoteConnection(identifier, endpoint) ==
    [identifier |-> identifier, endpoint |-> endpoint]
NullPtr == remoteConnection("nullptr", "nullptr")

dataMessage(type, source, destination, payload) ==
    [type |-> type, source |-> source, destination |-> destination,
     payload |-> payload]

RECURSIVE viewIdentifiers(_)
viewIdentifiers(clients) ==
    IF clients = <<>> THEN <<>>
    ELSE <<Head(clients).identifier>> \o viewIdentifiers(Tail(clients))

syncMessage(clients, source, destination, type) ==
    dataMessage(type, source, destination, viewIdentifiers(clients))

\* ------------------------------------------------------------ environment
\* The clients the environment plays.  The chain specification narrows the
\* client population so that two simulated nodes stay explorable.
InChain == Cardinality(live) > 1
Senders == IF InChain THEN ChainIdentifiers ELSE Identifiers
\* Every client sends from an address of its own.
EndpointOf(identifier) == "udp:" \o identifier
SenderTypes == IF InChain THEN ChainTypes ELSE ClientTypes

Datagram(to, from, msg) == [to |-> to, from |-> from, msg |-> msg]
\* What the listen thread holds between two datagrams.
NoDatagram == Datagram(-1, "none", "none")

\* Connection, disconnect and chat messages are addressed to everybody, a
\* private message to one identifier.
DestinationsOf(type) ==
    IF type = "PRIVATE_MESSAGE" THEN Senders ELSE {Broadcast}

ClientMessages ==
    UNION {{dataMessage(t, s, d, <<>>) : s \in Senders, d \in DestinationsOf(t)} :
              t \in SenderTypes}

ClientDatagrams(i) ==
    {Datagram(i, EndpointOf(m.source), m) : m \in ClientMessages}

\* Syncs of the neighbours the environment plays: a neighbour that exists in
\* the topology and is not simulated may report any client list.
RECURSIVE Listing(_)
Listing(S) ==
    IF S = {} THEN <<>>
    ELSE LET x == CHOOSE y \in S : TRUE IN <<x>> \o Listing(S \ {x})

\* The client lists such a neighbour reports: none, one client, or all.  In
\* the chain specification the servers outside the simulated pair are silent.
EnvRosters ==
    IF InChain THEN {}
    ELSE {<<>>, Listing(Senders)} \cup {<<s>> : s \in Senders}

EnvSyncs(i) ==
    {Datagram(i, ServerEndpoint(i + 1),
              dataMessage("SYNC_LEFT", serverIndexToServerName(i + 1), serverIndexToServerName(i), p)) :
        p \in IF rightAdjacentServerIndexIsValid(i + 1) /\ (i + 1) \notin live
              THEN EnvRosters ELSE {}}
    \cup
    {Datagram(i, ServerEndpoint(i - 1),
              dataMessage("SYNC_RIGHT", serverIndexToServerName(i - 1), serverIndexToServerName(i), p)) :
        p \in IF leftAdjacentServerIndexIsValid(i - 1) /\ (i - 1) \notin live
              THEN EnvRosters ELSE {}}

InFlight(i) == {d \in net : d.to = i}

\* A datagram handed to the transport: it reaches a simulated node's socket
\* unless the bounded network is full, in which case UDP loses it.
Transmit(network, d) ==
    IF d.to \in live /\ Cardinality(network \cup {d}) <= MaxNet
    THEN network \cup {d} ELSE network

\* ---------------------------------------------------------------- registry
addClientConnection(clients, inClientUsername, inClientEndpoint) ==
    Append(clients, remoteConnection(inClientUsername, inClientEndpoint))

removeClientConnection(clients, inClientUsername) ==
    IF clients # <<>> /\ Head(clients).identifier = inClientUsername
    THEN Tail(clients)
    ELSE clients

\* A receiver that appends the payload to the roster it already holds.
receiveClientsFromAdjacentServers_Merge(inSyncMessage, leftClients, rightClients) ==
    IF inSyncMessage.type = "SYNC_LEFT"
    THEN [left |-> leftClients, right |-> rightClients \o inSyncMessage.payload]
    ELSE [left |-> leftClients \o inSyncMessage.payload, right |-> rightClients]

\* [left |-> ..., right |-> ...]: the two rosters after a sync message.
receiveClientsFromAdjacentServers(inSyncMessage, leftClients, rightClients) ==
    IF inSyncMessage.type = "SYNC_LEFT"
    THEN [left |-> leftClients, right |-> inSyncMessage.payload]
    ELSE [left |-> inSyncMessage.payload, right |-> rightClients]

\* A queue that takes every message twice.
addToMessageQueue_Twice(queue, message) == Append(Append(queue, message), message)

addToMessageQueue(queue, message) == Append(queue, message)

\* ---------------------------------------------------------------- relayUDP
Contains(identifiers, identifier) ==
    \E k \in 1 .. Len(identifiers) : identifiers[k] = identifier

\* A relay that forgets to skip the sender.
BroadcastTargets_Echo(inMessageToSend, clients) ==
    [k \in 1 .. Len(clients) |-> clients[k].endpoint]

RECURSIVE BroadcastTargets(_, _)
BroadcastTargets(inMessageToSend, clients) ==
    IF clients = <<>> THEN <<>>
    ELSE LET targetClient == Head(clients)
             rest == BroadcastTargets(inMessageToSend, Tail(clients))
         IN IF targetClient.identifier # inMessageToSend.source
            THEN <<targetClient.endpoint>> \o rest
            ELSE rest

RECURSIVE LocalTarget(_, _)
LocalTarget(inMessageToSend, clients) ==
    IF clients = <<>> THEN <<>>
    ELSE IF Head(clients).identifier = inMessageToSend.destination
         THEN <<Head(clients).endpoint>>
         ELSE LocalTarget(inMessageToSend, Tail(clients))

Outcome(sends, notice, nullDeref) ==
    [sends |-> sends, notice |-> notice, nullDeref |-> nullDeref]

\* A relay that consults the left roster before the connected clients.
relayUDP_RosterFirst(inMessageToSend, clients, leftConn, leftClients, rightConn, rightClients) ==
    IF inMessageToSend.destination = Broadcast
    THEN Outcome(BroadcastTargets(inMessageToSend, clients), FALSE, FALSE)
    ELSE IF leftConn # NullPtr /\ Contains(leftClients, inMessageToSend.destination)
    THEN Outcome(<<leftConn.endpoint>>, FALSE, FALSE)
    ELSE IF LocalTarget(inMessageToSend, clients) # <<>>
    THEN Outcome(LocalTarget(inMessageToSend, clients), FALSE, FALSE)
    ELSE IF leftConn # NullPtr /\ Contains(rightClients, inMessageToSend.destination)
    THEN Outcome(<<rightConn.endpoint>>, FALSE, rightConn = NullPtr)
    ELSE Outcome(<<>>, TRUE, FALSE)

\* A relay that consults the right roster before the left one.
relayUDP_RightFirst(inMessageToSend, clients, leftConn, leftClients, rightConn, rightClients) ==
    IF inMessageToSend.destination = Broadcast
    THEN Outcome(BroadcastTargets(inMessageToSend, clients), FALSE, FALSE)
    ELSE IF LocalTarget(inMessageToSend, clients) # <<>>
    THEN Outcome(LocalTarget(inMessageToSend, clients), FALSE, FALSE)
    ELSE IF leftConn # NullPtr /\ Contains(rightClients, inMessageToSend.destination)
    THEN Outcome(<<rightConn.endpoint>>, FALSE, rightConn = NullPtr)
    ELSE IF leftConn # NullPtr /\ Contains(leftClients, inMessageToSend.destination)
    THEN Outcome(<<leftConn.endpoint>>, FALSE, FALSE)
    ELSE Outcome(<<>>, TRUE, FALSE)

\* A relay that hands a message for an unknown destination to the left
\* neighbour instead of dropping it.
relayUDP_DefaultRoute(inMessageToSend, clients, leftConn, leftClients, rightConn, rightClients) ==
    IF inMessageToSend.destination = Broadcast
    THEN Outcome(BroadcastTargets(inMessageToSend, clients), FALSE, FALSE)
    ELSE IF LocalTarget(inMessageToSend, clients) # <<>>
    THEN Outcome(LocalTarget(inMessageToSend, clients), FALSE, FALSE)
    ELSE IF leftConn # NullPtr /\ Contains(leftClients, inMessageToSend.destination)
    THEN Outcome(<<leftConn.endpoint>>, FALSE, FALSE)
    ELSE IF leftConn # NullPtr /\ Contains(rightClients, inMessageToSend.destination)
    THEN Outcome(<<rightConn.endpoint>>, FALSE, rightConn = NullPtr)
    ELSE IF leftConn # NullPtr
    THEN Outcome(<<leftConn.endpoint>>, FALSE, FALSE)
    ELSE Outcome(<<>>, TRUE, FALSE)

\* The sends relayUDP makes, in order, whether it prints the "not found"
\* notice, and whether it reads through a null connection pointer.
relayUDP(inMessageToSend, clients, leftConn, leftClients, rightConn, rightClients) ==
    IF inMessageToSend.destination = Broadcast
    THEN Outcome(BroadcastTargets(inMessageToSend, clients), FALSE, FALSE)
    ELSE IF LocalTarget(inMessageToSend, clients) # <<>>
    THEN Outcome(LocalTarget(inMessageToSend, clients), FALSE, FALSE)
    ELSE IF leftConn # NullPtr /\ Contains(leftClients, inMessageToSend.destination)
    THEN Outcome(<<leftConn.endpoint>>, FALSE, FALSE)
    ELSE IF leftConn # NullPtr /\ Contains(rightClients, inMessageToSend.destination)
    THEN Outcome(<<rightConn.endpoint>>, FALSE, rightConn = NullPtr)
    ELSE Outcome(<<>>, TRUE, FALSE)

Idle == [sends |-> <<>>, notice |-> FALSE]

\* The datagrams a sequence of sends puts on the wire toward simulated nodes.
RECURSIVE Forward(_, _, _, _)
Forward(network, i, sends, msg) ==
    IF sends = <<>> THEN network
    ELSE LET targets == {j \in live : ServerEndpoint(j) = Head(sends)}
             next == IF targets = {} THEN network
                     ELSE Transmit(network,
                             Datagram(CHOOSE j \in targets : TRUE, ServerEndpoint(i), msg))
         IN Forward(next, i, Tail(sends), msg)

\* ------------------------------------------------------------------- state
Everywhere(v) == [i \in ServerIndices |-> v]

InitShared ==
    /\ m_connectedClients = Everywhere(<<>>)
    /\ m_leftAdjacentServerConnection = Everywhere(NullPtr)
    /\ m_leftAdjacentServerConnectedClients = Everywhere(<<>>)
    /\ m_rightAdjacentServerConnection = Everywhere(NullPtr)
    /\ m_rightAdjacentServerConnectedClients = Everywhere(<<>>)
    /\ m_messageQueue = Everywhere(<<>>)
    /\ relayed = Everywhere(Idle)
    /\ syncSent = Everywhere(<<>>)
    /\ crashed = Everywhere(FALSE)
    /\ net = {}
    /\ m_terminate = Everywhere(FALSE)
    /\ listenPc = Everywhere("while")
    /\ received = Everywhere(NoDatagram)
    /\ syncPc = Everywhere("while")
    /\ syncFailed = Everywhere(<<>>)

\* Iteration by iteration, the relay thread stands at its inner while.
InitNodes == InitShared /\ relayPc = Everywhere("front")

Init == (\E m \in ServerIndices : live = {m}) /\ InitNodes

InitChain == live = ChainLive /\ InitNodes

\* -------------------------------------------------------------- listenLoop
\* One iteration of listenLoop: receive_from returns datagram d, the switch
\* on its type mutates the registry, and every non-sync message is queued.
Handle(i, d) ==
    LET message == d.msg IN
    /\ net' = net \ {d}
    /\ IF message.type \in SyncTypes
       THEN LET rosters == receiveClientsFromAdjacentServers(message,
                               m_leftAdjacentServerConnectedClients[i],
                               m_rightAdjacentServerConnectedClients[i])
            IN /\ m_leftAdjacentServerConnectedClients' =
                      [m_leftAdjacentServerConnectedClients EXCEPT ![i] = rosters.left]
               /\ m_rightAdjacentServerConnectedClients' =
                      [m_rightAdjacentServerConnectedClients EXCEPT ![i] = rosters.right]
               /\ UNCHANGED <<m_connectedClients, m_messageQueue>>
       ELSE /\ Len(m_messageQueue[i]) < MaxQueue
            /\ message.type = "CONNECTION" => Len(m_connectedClients[i]) < MaxClients
            /\ m_connectedClients' = [m_connectedClients EXCEPT ![i] =
                   IF message.type = "CONNECTION"
                   THEN addClientConnection(@, message.source, d.from)
                   ELSE IF message.type = "DISCONNECT"
                   THEN removeClientConnection(@, message.source)
                   ELSE @]
            /\ m_messageQueue' = [m_messageQueue EXCEPT ![i] =
                   addToMessageQueue(@, message)]
            /\ UNCHANGED <<m_leftAdjacentServerConnectedClients,
                           m_rightAdjacentServerConnectedClients>>
    /\ UNCHANGED <<live, m_leftAdjacentServerConnection,
                   m_rightAdjacentServerConnection, relayPc, relayed,
                   syncSent, crashed, threadVars>>

Arrivals(i) == ClientDatagrams(i) \cup EnvSyncs(i) \cup InFlight(i)

listenLoop(i) ==
    /\ i \in live
    /\ ~crashed[i]
    /\ \E d \in Arrivals(i) : Handle(i, d)

\* --------------------------------------------------------------- relayLoop
\* relayLoop up to the pop: the front message goes through relayUDP (and the
\* empty relayBluetooth).  A read through a null connection pointer is
\* undefined: the process dies, or the send goes to a garbage endpoint.
Relay(i, ub) ==
    LET inMessageToSend == Head(m_messageQueue[i])
        outcome == relayUDP(inMessageToSend, m_connectedClients[i],
                       m_leftAdjacentServerConnection[i],
                       m_leftAdjacentServerConnectedClients[i],
                       m_rightAdjacentServerConnection[i],
                       m_rightAdjacentServerConnectedClients[i])
    IN IF outcome.nullDeref /\ ub = "crash"
       THEN /\ crashed' = [crashed EXCEPT ![i] = TRUE]
            /\ UNCHANGED <<relayPc, relayed, net>>
       ELSE /\ relayed' = [relayed EXCEPT ![i] =
                   [sends |-> outcome.sends, notice |-> outcome.notice]]
            /\ relayPc' = [relayPc EXCEPT ![i] = "pop"]
            /\ net' = Forward(net, i, outcome.sends, inMessageToSend)
            /\ UNCHANGED crashed

relayLoop(i) ==
    /\ i \in live
    /\ ~crashed[i]
    /\ relayPc[i] = "front"
    /\ m_messageQueue[i] # <<>>
    /\ \E ub \in {"crash", "garbage"} : Relay(i, ub)
    /\ UNCHANGED <<live, m_connectedClients, m_leftAdjacentServerConnection,
                   m_leftAdjacentServerConnectedClients,
                   m_rightAdjacentServerConnection,
                   m_rightAdjacentServerConnectedClients, m_messageQueue,
                   syncSent, threadVars>>

\* A pop that takes the newest message out instead of the relayed one.
relayLoopPop_Newest(i) ==
    /\ i \in live
    /\ ~crashed[i]
    /\ relayPc[i] = "pop"
    /\ m_messageQueue' = [m_messageQueue EXCEPT ![i] = SubSeq(@, 1, Len(@) - 1)]
    /\ relayPc' = [relayPc EXCEPT ![i] = "front"]
    /\ relayed' = [relayed EXCEPT ![i] = Idle]
    /\ UNCHANGED <<live, m_connectedClients, m_leftAdjacentServerConnection,
                   m_leftAdjacentServerConnectedClients,
                   m_rightAdjacentServerConnection,
                   m_rightAdjacentServerConnectedClients, syncSent,
                   crashed, net, threadVars>>

\* relayLoop's pop: the message relayed over both protocols leaves the queue.
relayLoopPop(i) ==
    /\ i \in live
    /\ ~crashed[i]
    /\ relayPc[i] = "pop"
    /\ m_messageQueue' = [m_messageQueue EXCEPT ![i] = Tail(@)]
    /\ relayPc' = [relayPc EXCEPT ![i] = "front"]
    /\ relayed' = [relayed EXCEPT ![i] = Idle]
    /\ UNCHANGED <<live, m_connectedClients, m_leftAdjacentServerConnection,
                   m_leftAdjacentServerConnectedClients,
                   m_rightAdjacentServerConnection,
                   m_rightAdjacentServerConnectedClients, syncSent,
                   crashed, net, threadVars>>

\* ----------------------------------------------- maintainToAdjacentServers
Attempt(endpoint, msg, ok) == [endpoint |-> endpoint, msg |-> msg, ok |-> ok]

\* A sync side that tags every sync SYNC_LEFT, whichever side it goes to.
SyncSide_SameTag(i, valid, adjacent, conn, type, resolved, sendOk) ==
    IF ~valid THEN [conn |-> conn, sent |-> <<>>]
    ELSE IF conn = NullPtr
    THEN [conn |-> IF resolved
                   THEN remoteConnection(serverIndexToServerName(adjacent), ServerEndpoint(adjacent))
                   ELSE NullPtr,
          sent |-> <<>>]
    ELSE [conn |-> conn,
          sent |-> <<Attempt(conn.endpoint,
                        syncMessage(m_connectedClients[i], serverIndexToServerName(i),
                                    serverIndexToServerName(adjacent), "SYNC_LEFT"),
                        sendOk)>>]

\* A sync side that never asks the topology whether the neighbour exists.
SyncSide_NoBoundary(i, valid, adjacent, conn, type, resolved, sendOk) ==
    IF conn = NullPtr
    THEN [conn |-> IF resolved
                   THEN remoteConnection(ServerEndpoint(adjacent), ServerEndpoint(adjacent))
                   ELSE NullPtr,
          sent |-> <<>>]
    ELSE [conn |-> conn,
          sent |-> <<Attempt(conn.endpoint,
                        dataMessage(type, serverIndexToServerName(i), conn.identifier,
                                    viewIdentifiers(m_connectedClients[i])),
                        sendOk)>>]

\* A sync side that reports the first connected client only.
SyncSide_FirstClient(i, valid, adjacent, conn, type, resolved, sendOk) ==
    IF ~valid THEN [conn |-> conn, sent |-> <<>>]
    ELSE IF conn = NullPtr
    THEN [conn |-> IF resolved
                   THEN remoteConnection(serverIndexToServerName(adjacent), ServerEndpoint(adjacent))
                   ELSE NullPtr,
          sent |-> <<>>]
    ELSE [conn |-> conn,
          sent |-> <<Attempt(conn.endpoint,
                        syncMessage(SelectSeq(m_connectedClients[i],
                                        LAMBDA c : c = Head(m_connectedClients[i])),
                                    serverIndexToServerName(i),
                                    serverIndexToServerName(adjacent), type),
                        sendOk)>>]

\* A sync side that gives the connection up when its send fails.
SyncSide_DropOnFailure(i, valid, adjacent, conn, type, resolved, sendOk) ==
    IF ~valid THEN [conn |-> conn, sent |-> <<>>]
    ELSE IF conn = NullPtr
    THEN [conn |-> IF resolved
                   THEN remoteConnection(serverIndexToServerName(adjacent), ServerEndpoint(adjacent))
                   ELSE NullPtr,
          sent |-> <<>>]
    ELSE [conn |-> IF sendOk THEN conn ELSE NullPtr,
          sent |-> <<Attempt(conn.endpoint,
                        syncMessage(m_connectedClients[i], serverIndexToServerName(i),
                                    serverIndexToServerName(adjacent), type),
                        sendOk)>>]

\* One side of an iteration: [conn |-> the slot afterwards, sent |-> the sync
\* send attempted].  resolved and sendOk are the outcomes of resolve and
\* send_to.
SyncSide(i, valid, adjacent, conn, type, resolved, sendOk) ==
    IF ~valid THEN [conn |-> conn, sent |-> <<>>]
    ELSE IF conn = NullPtr
    THEN [conn |-> IF resolved
                   THEN remoteConnection(serverIndexToServerName(adjacent), ServerEndpoint(adjacent))
                   ELSE NullPtr,
          sent |-> <<>>]
    ELSE [conn |-> conn,
          sent |-> <<Attempt(conn.endpoint,
                        syncMessage(m_connectedClients[i], serverIndexToServerName(i),
                                    serverIndexToServerName(adjacent), type),
                        sendOk)>>]

\* What an iteration leaves observable of its sends: where each sync went and
\* how it was tagged.
RECURSIVE Sent(_)
Sent(attempts) ==
    IF attempts = <<>> THEN <<>>
    ELSE <<[endpoint |-> Head(attempts).endpoint, type |-> Head(attempts).msg.type]>>
         \o Sent(Tail(attempts))

RECURSIVE Deliver(_, _, _)
Deliver(network, i, attempts) ==
    IF attempts = <<>> THEN network
    ELSE LET a == Head(attempts)
             targets == {j \in ServerIndices : ServerEndpoint(j) = a.endpoint}
             next == IF a.ok /\ targets # {}
                     THEN Transmit(network,
                             Datagram(CHOOSE j \in targets : TRUE, ServerEndpoint(i), a.msg))
                     ELSE network
         IN Deliver(next, i, Tail(attempts))

\* The outcomes of a call an iteration makes; one that is not made has none.
Outcomes(called) == IF called THEN BOOLEAN ELSE {TRUE}

\* The left side, then the right side, under the outcomes lr, rr of the
\* resolutions and ls, rs of the sends.
BothSides(i, lr, ls, rr, rs) ==
    [left |-> SyncSide(i, leftAdjacentServerIndexIsValid(i - 1), i - 1,
                  m_leftAdjacentServerConnection[i], "SYNC_LEFT", lr, ls),
     right |-> SyncSide(i, rightAdjacentServerIndexIsValid(i + 1), i + 1,
                   m_rightAdjacentServerConnection[i], "SYNC_RIGHT", rr, rs)]

\* The endpoints of the attempts whose send_to threw.
RECURSIVE Failed(_)
Failed(attempts) ==
    IF attempts = <<>> THEN <<>>
    ELSE (IF Head(attempts).ok THEN <<>> ELSE <<Head(attempts).endpoint>>)
         \o Failed(Tail(attempts))

\* What both sides leave behind: the slots, the log of the sends, the syncs
\* on the wire.
SyncEffect(i, sides) ==
    LET attempts == sides.left.sent \o sides.right.sent
    IN /\ m_leftAdjacentServerConnection' =
              [m_leftAdjacentServerConnection EXCEPT ![i] = sides.left.conn]
       /\ m_rightAdjacentServerConnection' =
              [m_rightAdjacentServerConnection EXCEPT ![i] = sides.right.conn]
       /\ syncSent' = [syncSent EXCEPT ![i] = Sent(attempts)]
       /\ net' = Deliver(net, i, attempts)

\* The body of one iteration of maintainToAdjacentServers, under some outcome
\* of each resolve and send_to.
SyncIteration(i) ==
    \E lr \in Outcomes(m_leftAdjacentServerConnection[i] = NullPtr),
       ls \in Outcomes(m_leftAdjacentServerConnection[i] # NullPtr),
       rr \in Outcomes(m_rightAdjacentServerConnection[i] = NullPtr),
       rs \in Outcomes(m_rightAdjacentServerConnection[i] # NullPtr) :
      SyncEffect(i, BothSides(i, lr, ls, rr, rs))

\* One iteration of maintainToAdjacentServers, from the loop test through
\* both sides to the sleep.
maintainToAdjacentServers(i) ==
    /\ i \in live
    /\ ~crashed[i]
    /\ SyncIteration(i)
    /\ UNCHANGED <<live, m_connectedClients, m_leftAdjacentServerConnectedClients,
                   m_rightAdjacentServerConnectedClients, m_messageQueue, relayPc,
                   relayed, crashed, threadVars>>

Next ==
    \E i \in ServerIndices :
        \/ listenLoop(i)
        \/ relayLoop(i)
        \/ relayLoopPop(i)
        \/ maintainToAdjacentServers(i)

Spec == Init /\ [][Next]_vars

SpecChain == InitChain /\ [][Next]_vars

\* --------------------------------------------------------------- sync loop
\* The two simulated adjacent nodes with their listen and sync loops, each
\* iteration of the sync loop leaving behind which of its sends failed.
maintainToAdjacentServersLogged(i) ==
    /\ i \in live
    /\ ~crashed[i]
    /\ \E lr \in Outcomes(m_leftAdjacentServerConnection[i] = NullPtr),
          ls \in Outcomes(m_leftAdjacentServerConnection[i] # NullPtr),
          rr \in Outcomes(m_rightAdjacentServerConnection[i] = NullPtr),
          rs \in Outcomes(m_rightAdjacentServerConnection[i] # NullPtr) :
         LET sides == BothSides(i, lr, ls, rr, rs)
         IN /\ SyncEffect(i, sides)
            /\ syncFailed' = [syncFailed EXCEPT ![i] =
                   Failed(sides.left.sent \o sides.right.sent)]
    /\ UNCHANGED <<live, m_connectedClients, m_leftAdjacentServerConnectedClients,
                   m_rightAdjacentServerConnectedClients, m_messageQueue, relayPc,
                   relayed, crashed, m_terminate, listenPc, received, syncPc>>

NextSync ==
    \E i \in ServerIndices :
        \/ listenLoop(i)
        \/ maintainToAdjacentServersLogged(i)

SpecSync == InitChain /\ [][NextSync]_vars

\* -------------------------------------------------------------- forwarding
\* The middle node and its right neighbour.  One client roams: it connects to
\* and disconnects from either node.  Another client talks to the middle node
\* only and writes to the roaming one, so a message of its that another node
\* holds has come there over a server-to-server link.
ForwardLive == {Len(serverNames) - 2, Len(serverNames) - 1}
Roamer == "a"
Resident == "b"

ForwardDatagrams(i) ==
    {Datagram(i, EndpointOf(Roamer), dataMessage(t, Roamer, Broadcast, <<>>)) :
        t \in {"CONNECTION", "DISCONNECT"}}
    \cup
    {Datagram(i, EndpointOf(Resident),
              dataMessage("PRIVATE_MESSAGE", Resident, Roamer, <<>>)) :
        j \in {i} \cap MiddleLive}

\* One iteration of listenLoop under that traffic.
listenLoopForward(i) ==
    /\ i \in live
    /\ ~crashed[i]
    /\ \E d \in ForwardDatagrams(i) \cup InFlight(i) : Handle(i, d)

InitForward == live = ForwardLive /\ InitNodes

NextForward ==
    \E i \in ServerIndices :
        \/ listenLoopForward(i)
        \/ relayLoop(i)
        \/ relayLoopPop(i)
        \/ maintainToAdjacentServers(i)

SpecForward == InitForward /\ [][NextForward]_vars

\* ----------------------------------------------------------------- backlog
\* One node whose relay loop falls behind its listen loop: broadcast traffic
\* of the clients piles up in the message queue, up to MaxBacklog messages.
BacklogArrivals(i) == {d \in ClientDatagrams(i) : d.msg.destination = Broadcast}

\* One iteration of listenLoop for a client's message.
listenLoopBacklog(i) ==
    /\ i \in live
    /\ ~crashed[i]
    /\ Len(m_messageQueue[i]) < MaxBacklog
    /\ \E d \in BacklogArrivals(i) :
         /\ d.msg.type = "CONNECTION" => Len(m_connectedClients[i]) < MaxClients
         /\ m_connectedClients' = [m_connectedClients EXCEPT ![i] =
                IF d.msg.type = "CONNECTION"
                THEN addClientConnection(@, d.msg.source, d.from)
                ELSE IF d.msg.type = "DISCONNECT"
                THEN removeClientConnection(@, d.msg.source)
                ELSE @]
         /\ m_messageQueue' = [m_messageQueue EXCEPT ![i] =
                addToMessageQueue(@, d.msg)]
    /\ UNCHANGED <<live, m_leftAdjacentServerConnection,
                   m_leftAdjacentServerConnectedClients,
                   m_rightAdjacentServerConnection,
                   m_rightAdjacentServerConnectedClients, relayPc, relayed,
                   syncSent, crashed, net, threadVars>>

InitBacklog == live = MiddleLive /\ InitNodes

NextBacklog ==
    \E i \in ServerIndices :
        \/ listenLoopBacklog(i)
        \/ relayLoop(i)
        \/ relayLoopPop(i)

SpecBacklog == InitBacklog /\ [][NextBacklog]_vars

\* ------------------------------------------------------------ three threads
\* run() starts listenLoop, relayLoop and maintainToAdjacentServers as three
\* threads over the same members, with no lock between them.  Here every loop
\* advances statement by statement: an operation on a shared container is
\* under way from the step that enters it to the step that leaves it.
InitThreads == live = MiddleLive /\ InitShared /\ relayPc = Everywhere("while")

registry == <<m_connectedClients, m_leftAdjacentServerConnectedClients,
              m_rightAdjacentServerConnectedClients>>

slots == <<m_leftAdjacentServerConnection, m_rightAdjacentServerConnection>>

\* listenLoop is inside push_back, erase or the assignment of a roster.
Writing(i) == listenPc[i] = "mutate"
\* listenLoop is inside m_messageQueue.push.
Pushing(i) == listenPc[i] = "push"
\* relayLoop is inside relayUDP, which walks the client list and the rosters.
Iterating(i) == relayPc[i] = "relayUDP"
\* maintainToAdjacentServers is inside an iteration that copies the client
\* list into a sync message.
Building(i) ==
    /\ syncPc[i] = "syncMessage"
    /\ \/ m_leftAdjacentServerConnection[i] # NullPtr
       \/ m_rightAdjacentServerConnection[i] # NullPtr

\* The traffic the three threads are explored under: one client, and the
\* right neighbour reporting no client or that one.
ThreadArrivals(i) ==
    {d \in Arrivals(i) :
        /\ d.msg.type \in ClientTypes =>
               d.msg.source = Head(Listing(Senders)) /\ d.msg.destination = Broadcast
        /\ d.msg.type \in SyncTypes =>
               /\ d.msg.type = "SYNC_LEFT"
               /\ d.msg.payload \in {<<>>, <<Head(Listing(Senders))>>}}

\* What an unsynchronised access that meets another thread's write may do:
\* go unnoticed, or take the process down.
Races == {"benign", "crash"}

Dies(i) == crashed' = [crashed EXCEPT ![i] = TRUE]

Running(i) == i \in live /\ ~crashed[i]

\* while(!m_terminate) of listenLoop.
ListenTest(i) ==
    /\ Running(i)
    /\ listenPc[i] = "while"
    /\ listenPc' = [listenPc EXCEPT ![i] =
           IF m_terminate[i] THEN "return" ELSE "receive_from"]
    /\ UNCHANGED <<live, registry, slots, m_messageQueue, relayPc, relayed,
                   syncSent, crashed, net, m_terminate, received, syncPc,
                   syncFailed>>

\* receive_from returns a datagram; the switch enters the registry operation
\* of its type, or the push for a Chat or PrivateMessage.
ListenReceive(i) ==
    /\ Running(i)
    /\ listenPc[i] = "receive_from"
    /\ \E d \in ThreadArrivals(i) :
         /\ d.msg.type \in ClientTypes => Len(m_messageQueue[i]) < MaxQueue
         /\ d.msg.type = "CONNECTION" => Len(m_connectedClients[i]) < MaxClients
         /\ net' = net \ {d}
         /\ received' = [received EXCEPT ![i] = d]
         /\ listenPc' = [listenPc EXCEPT ![i] =
                IF d.msg.type \in {"CHAT", "PRIVATE_MESSAGE"} THEN "push" ELSE "mutate"]
    /\ UNCHANGED <<live, registry, slots, m_messageQueue, relayPc, relayed,
                   syncSent, crashed, m_terminate, syncPc,
                   syncFailed>>

\* receive_from reports an error: thrown, caught, next iteration.
ListenReceiveFails(i) ==
    /\ Running(i)
    /\ listenPc[i] = "receive_from"
    /\ listenPc' = [listenPc EXCEPT ![i] = "while"]
    /\ UNCHANGED <<live, registry, slots, m_messageQueue, relayPc, relayed,
                   syncSent, crashed, net, m_terminate, received, syncPc,
                   syncFailed>>

\* The registry operation completes.  A sync continues with the next
\* iteration, a Connect or Disconnect enters the push.
ListenStore(i) ==
    LET message == received[i].msg
        rosters == receiveClientsFromAdjacentServers(message,
                       m_leftAdjacentServerConnectedClients[i],
                       m_rightAdjacentServerConnectedClients[i])
    IN
    /\ Running(i)
    /\ Writing(i)
    /\ \E race \in Races :
         IF (Iterating(i) \/ Building(i)) /\ race = "crash"
         THEN /\ Dies(i)
              /\ UNCHANGED <<registry, listenPc, received>>
         ELSE /\ m_connectedClients' = [m_connectedClients EXCEPT ![i] =
                     IF message.type = "CONNECTION"
                     THEN addClientConnection(@, message.source, received[i].from)
                     ELSE IF message.type = "DISCONNECT"
                     THEN removeClientConnection(@, message.source)
                     ELSE @]
              /\ m_leftAdjacentServerConnectedClients' =
                     [m_leftAdjacentServerConnectedClients EXCEPT ![i] =
                         IF message.type \in SyncTypes THEN rosters.left ELSE @]
              /\ m_rightAdjacentServerConnectedClients' =
                     [m_rightAdjacentServerConnectedClients EXCEPT ![i] =
                         IF message.type \in SyncTypes THEN rosters.right ELSE @]
              /\ listenPc' = [listenPc EXCEPT ![i] =
                     IF message.type \in SyncTypes THEN "while" ELSE "push"]
              /\ received' = [received EXCEPT ![i] =
                     IF message.type \in SyncTypes THEN NoDatagram ELSE @]
              /\ UNCHANGED crashed
    /\ UNCHANGED <<live, slots, m_messageQueue, relayPc, relayed, syncSent, net,
                   m_terminate, syncPc, syncFailed>>

\* The push completes.
ListenEnqueue(i) ==
    /\ Running(i)
    /\ Pushing(i)
    /\ m_messageQueue' = [m_messageQueue EXCEPT ![i] =
           addToMessageQueue(@, received[i].msg)]
    /\ listenPc' = [listenPc EXCEPT ![i] = "while"]
    /\ received' = [received EXCEPT ![i] = NoDatagram]
    /\ UNCHANGED <<live, registry, slots, relayPc, relayed, syncSent, crashed,
                   net, m_terminate, syncPc,
                   syncFailed>>

\* while(!m_terminate) of relayLoop.
RelayTest(i) ==
    /\ Running(i)
    /\ relayPc[i] = "while"
    /\ relayPc' = [relayPc EXCEPT ![i] = IF m_terminate[i] THEN "return" ELSE "front"]
    /\ UNCHANGED <<live, registry, slots, m_messageQueue, relayed, syncSent,
                   crashed, net, threadVars>>

\* The inner while finds the queue empty; the outer loop spins.
RelayEmpty(i) ==
    /\ Running(i)
    /\ relayPc[i] = "front"
    /\ m_messageQueue[i] = <<>>
    /\ \E race \in Races :
         IF Pushing(i) /\ race = "crash"
         THEN Dies(i) /\ UNCHANGED relayPc
         ELSE relayPc' = [relayPc EXCEPT ![i] = "while"] /\ UNCHANGED crashed
    /\ UNCHANGED <<live, registry, slots, m_messageQueue, relayed, syncSent,
                   net, threadVars>>

\* The inner while finds a message; front() is taken and relayUDP entered.
RelayFront(i) ==
    /\ Running(i)
    /\ relayPc[i] = "front"
    /\ m_messageQueue[i] # <<>>
    /\ \E race \in Races :
         IF Pushing(i) /\ race = "crash"
         THEN Dies(i) /\ UNCHANGED relayPc
         ELSE relayPc' = [relayPc EXCEPT ![i] = "relayUDP"] /\ UNCHANGED crashed
    /\ UNCHANGED <<live, registry, slots, m_messageQueue, relayed, syncSent,
                   net, threadVars>>

\* relayUDP and relayBluetooth return.
RelaySend(i) ==
    /\ Running(i)
    /\ Iterating(i)
    /\ \E race \in Races, ub \in {"crash", "garbage"} :
         IF Writing(i) /\ race = "crash"
         THEN Dies(i) /\ UNCHANGED <<relayPc, relayed, net>>
         ELSE Relay(i, ub)
    /\ UNCHANGED <<live, registry, slots, m_messageQueue, syncSent, threadVars>>

\* pop().
RelayPop(i) ==
    /\ Running(i)
    /\ relayPc[i] = "pop"
    /\ \E race \in Races :
         IF Pushing(i) /\ race = "crash"
         THEN /\ Dies(i)
              /\ UNCHANGED <<live, registry, slots, m_messageQueue, relayPc,
                             relayed, syncSent, net, threadVars>>
         ELSE relayLoopPop(i)

\* while(!m_terminate) of maintainToAdjacentServers.
SyncTest(i) ==
    /\ Running(i)
    /\ syncPc[i] = "while"
    /\ syncPc' = [syncPc EXCEPT ![i] =
           IF m_terminate[i] THEN "return" ELSE "syncMessage"]
    /\ UNCHANGED <<live, registry, slots, m_messageQueue, relayPc, relayed,
                   syncSent, crashed, net, m_terminate, listenPc, received,
                   syncFailed>>

\* Both sides of the iteration are done, and the sleep.
SyncSleep(i) ==
    /\ Running(i)
    /\ syncPc[i] = "syncMessage"
    /\ \E race \in Races :
         IF Writing(i) /\ Building(i) /\ race = "crash"
         THEN Dies(i) /\ UNCHANGED <<slots, syncSent, net, syncPc>>
         ELSE /\ SyncIteration(i)
              /\ syncPc' = [syncPc EXCEPT ![i] = "while"]
              /\ UNCHANGED crashed
    /\ UNCHANGED <<live, registry, m_messageQueue, relayPc, relayed,
                   m_terminate, listenPc, received,
                   syncFailed>>

\* Whoever owns the server object sets the termination flag.
Terminate(i) ==
    /\ Running(i)
    /\ ~m_terminate[i]
    /\ m_terminate' = [m_terminate EXCEPT ![i] = TRUE]
    /\ UNCHANGED <<live, registry, slots, m_messageQueue, relayPc, relayed,
                   syncSent, crashed, net, listenPc, received, syncPc,
                   syncFailed>>

\* The steps a thread takes by itself, and those that wait for the network.
ThreadStep(i) ==
    \/ ListenTest(i)
    \/ ListenStore(i)
    \/ ListenEnqueue(i)
    \/ RelayTest(i)
    \/ RelayEmpty(i)
    \/ RelayFront(i)
    \/ RelaySend(i)
    \/ RelayPop(i)
    \/ SyncTest(i)
    \/ SyncSleep(i)

NextThreads ==
    \E i \in ServerIndices :
        \/ ListenTest(i)
        \/ ListenReceive(i)
        \/ ListenReceiveFails(i)
        \/ ListenStore(i)
        \/ ListenEnqueue(i)
        \/ RelayTest(i)
        \/ RelayEmpty(i)
        \/ RelayFront(i)
        \/ RelaySend(i)
        \/ RelayPop(i)
        \/ SyncTest(i)
        \/ SyncSleep(i)
        \/ Terminate(i)

SpecThreads == InitThreads /\ [][NextThreads]_vars

\* ======================================================= relayUDP properties
\* The step of the relay loop that hands the front message to relayUDP.
RelayStep(i) == relayPc[i] = "front" /\ relayPc'[i] = "pop"

Front(i) == Head(m_messageQueue[i])

EndpointsOf(clients) == [k \in 1 .. Len(clients) |-> clients[k].endpoint]

IsLocal(i, identifier) ==
    \E k \in 1 .. Len(m_connectedClients[i]) :
        m_connectedClients[i][k].identifier = identifier

InLeftRoster(i, identifier) ==
    \E k \in 1 .. Len(m_leftAdjacentServerConnectedClients[i]) :
        m_leftAdjacentServerConnectedClients[i][k] = identifier

InRightRoster(i, identifier) ==
    \E k \in 1 .. Len(m_rightAdjacentServerConnectedClients[i]) :
        m_rightAdjacentServerConnectedClients[i][k] = identifier

NeighborEndpoints(i) == {ServerEndpoint(i - 1), ServerEndpoint(i + 1)}

SendsTo(sends, endpoints) == \E k \in 1 .. Len(sends) : sends[k] \in endpoints

NotSender(i, client) == client.identifier # Front(i).source

\* C1: a broadcast message is sent to exactly the connected clients whose
\* identifier differs from the message's source, in list order; no entry of the
\* sender receives it, and nothing goes to a neighbour server's endpoint.
C1_BroadcastDelivery ==
    [][\A i \in live :
          (RelayStep(i) /\ Front(i).destination = Broadcast) =>
              /\ relayed'[i].sends =
                     EndpointsOf(SelectSeq(m_connectedClients[i],
                                           LAMBDA c : NotSender(i, c)))
              /\ \A k \in 1 .. Len(m_connectedClients[i]) :
                     ~NotSender(i, m_connectedClients[i][k]) =>
                         ~SendsTo(relayed'[i].sends,
                                  {m_connectedClients[i][k].endpoint})
              /\ ~SendsTo(relayed'[i].sends, NeighborEndpoints(i))
              /\ ~relayed'[i].notice]_vars

\* C1 witness: a broadcast has been relayed on a node where the sender and
\* another client are connected, and only the other client was sent to.
C1_Witness ==
    \E i \in live :
        /\ relayPc[i] = "pop"
        /\ Front(i).destination = Broadcast
        /\ IsLocal(i, Front(i).source)
        /\ Len(m_connectedClients[i]) = 2
        /\ Len(relayed[i].sends) = 1
        /\ relayed[i].sends[1] # EndpointOf(Front(i).source)

FirstLocal(i, identifier) ==
    LET c == m_connectedClients[i]
        k == CHOOSE n \in 1 .. Len(c) :
                 /\ c[n].identifier = identifier
                 /\ \A m \in 1 .. (n - 1) : c[m].identifier # identifier
    IN c[k]

\* C2: a unicast message whose destination is a connected client is sent
\* exactly once, to that client's endpoint, and never to a neighbour server,
\* whatever the neighbour rosters hold.
C2_UnicastPrecedence ==
    [][\A i \in live :
          (/\ RelayStep(i)
           /\ Front(i).destination # Broadcast
           /\ IsLocal(i, Front(i).destination)) =>
              /\ relayed'[i].sends = <<FirstLocal(i, Front(i).destination).endpoint>>
              /\ ~SendsTo(relayed'[i].sends, NeighborEndpoints(i))
              /\ ~relayed'[i].notice]_vars

\* C2 witness: a unicast was delivered locally although the destination is
\* also in the roster of a connected left neighbour.
C2_Witness ==
    \E i \in live :
        /\ relayPc[i] = "pop"
        /\ Front(i).destination # Broadcast
        /\ IsLocal(i, Front(i).destination)
        /\ m_leftAdjacentServerConnection[i] # NullPtr
        /\ InLeftRoster(i, Front(i).destination)
        /\ relayed[i].sends = <<EndpointOf(Front(i).destination)>>

\* C3: a unicast message whose destination is not connected here, on a node
\* with a left-neighbour connection whose roster holds the destination, is sent
\* exactly once, to the left neighbour's endpoint, and never to the right one.
C3_LeftFallback ==
    [][\A i \in live :
          (/\ RelayStep(i)
           /\ Front(i).destination # Broadcast
           /\ ~IsLocal(i, Front(i).destination)
           /\ m_leftAdjacentServerConnection[i] # NullPtr
           /\ InLeftRoster(i, Front(i).destination)) =>
              /\ relayed'[i].sends = <<ServerEndpoint(i - 1)>>
              /\ relayed'[i].sends = <<m_leftAdjacentServerConnection[i].endpoint>>
              /\ ~SendsTo(relayed'[i].sends, {ServerEndpoint(i + 1)})
              /\ ~relayed'[i].notice]_vars

\* C3 witness: a unicast went to the left neighbour although the destination
\* is in the roster of a connected right neighbour as well.
C3_Witness ==
    \E i \in live :
        /\ relayPc[i] = "pop"
        /\ Front(i).destination # Broadcast
        /\ ~IsLocal(i, Front(i).destination)
        /\ m_leftAdjacentServerConnection[i] # NullPtr
        /\ m_rightAdjacentServerConnection[i] # NullPtr
        /\ InLeftRoster(i, Front(i).destination)
        /\ InRightRoster(i, Front(i).destination)
        /\ relayed[i].sends = <<ServerEndpoint(i - 1)>>

\* C4: a unicast message whose destination is not connected here and was not
\* forwarded left, on a node with a right-neighbour connection whose roster
\* holds the destination, is sent exactly once to the right neighbour's
\* endpoint, with or without a left-neighbour connection.
C4_RightFallback ==
    [][\A i \in live :
          (/\ RelayStep(i)
           /\ Front(i).destination # Broadcast
           /\ ~IsLocal(i, Front(i).destination)
           /\ ~(/\ m_leftAdjacentServerConnection[i] # NullPtr
                /\ InLeftRoster(i, Front(i).destination))
           /\ m_rightAdjacentServerConnection[i] # NullPtr
           /\ InRightRoster(i, Front(i).destination)) =>
              relayed'[i].sends = <<ServerEndpoint(i + 1)>>]_vars

\* C5: a unicast message whose destination is in none of the connected
\* clients, the left roster and the right roster causes no send and the "not
\* found" notice, and the relay loop's next step removes it from the queue.
C5_UnknownDestination ==
    [][\A i \in live :
          /\ (/\ RelayStep(i)
              /\ Front(i).destination # Broadcast
              /\ ~IsLocal(i, Front(i).destination)
              /\ ~InLeftRoster(i, Front(i).destination)
              /\ ~InRightRoster(i, Front(i).destination)) =>
                 /\ relayed'[i].sends = <<>>
                 /\ relayed'[i].notice
                 /\ net' = net
                 /\ m_messageQueue'[i] = m_messageQueue[i]
          /\ (relayPc[i] = "pop" /\ relayed[i].notice) =>
                 \/ (/\ relayPc'[i] = "pop"
                     /\ relayed'[i] = relayed[i]
                     /\ Head(m_messageQueue'[i]) = Front(i))
                 \/ (/\ relayPc'[i] = "front"
                     /\ m_messageQueue'[i] = Tail(m_messageQueue[i]))]_vars

\* C5 witness: a message for an unknown destination has been relayed with the
\* notice and no send, on a node that has both neighbour connections.
C5_Witness ==
    \E i \in live :
        /\ relayPc[i] = "pop"
        /\ relayed[i].notice
        /\ relayed[i].sends = <<>>
        /\ Front(i).destination # Broadcast
        /\ m_leftAdjacentServerConnection[i] # NullPtr
        /\ m_rightAdjacentServerConnection[i] # NullPtr
        /\ m_connectedClients[i] # <<>>
        /\ m_leftAdjacentServerConnectedClients[i] # <<>>
        /\ m_rightAdjacentServerConnectedClients[i] # <<>>

\* ===================================================== listenLoop properties
\* The step of the listen loop that queues a message of the given type.
Queued(i, type) ==
    /\ Len(m_messageQueue'[i]) = Len(m_messageQueue[i]) + 1
    /\ m_messageQueue'[i][Len(m_messageQueue'[i])].type = type

LastQueued(i) == m_messageQueue'[i][Len(m_messageQueue'[i])]

IdentifiersOf(clients) == [k \in 1 .. Len(clients) |-> clients[k].identifier]

\* clients without its first entry that carries the identifier, if any.
RemoveFirstMatch(clients, identifier) ==
    LET hits == {k \in 1 .. Len(clients) : clients[k].identifier = identifier}
    IN IF hits = {} THEN clients
       ELSE LET first == CHOOSE k \in hits : \A h \in hits : k <= h
            IN SubSeq(clients, 1, first - 1) \o SubSeq(clients, first + 1, Len(clients))

\* C6: a Disconnect message removes the first connected client that carries
\* the message's source identifier, wherever it stands in the list, and keeps
\* every other entry in order.
C6_DisconnectRemovesFirstMatch ==
    [][\A i \in live :
          Queued(i, "DISCONNECT") =>
              m_connectedClients'[i] =
                  RemoveFirstMatch(m_connectedClients[i], LastQueued(i).source)]_vars

SyncArrivals(i) == EnvSyncs(i) \cup {d \in InFlight(i) : d.msg.type \in SyncTypes}

\* C7: a SyncLeft message replaces the right roster by its payload and a
\* SyncRight message the left roster; nothing of the old roster is kept, and
\* the other roster, the connected clients, the neighbour connections and the
\* message queue stay as they are.
C7_RosterReplacement ==
    [][\A i \in live : \A d \in SyncArrivals(i) :
          Handle(i, d) =>
              /\ d.msg.type = "SYNC_LEFT" =>
                    /\ m_rightAdjacentServerConnectedClients'[i] = d.msg.payload
                    /\ m_leftAdjacentServerConnectedClients'[i] =
                           m_leftAdjacentServerConnectedClients[i]
              /\ d.msg.type = "SYNC_RIGHT" =>
                    /\ m_leftAdjacentServerConnectedClients'[i] = d.msg.payload
                    /\ m_rightAdjacentServerConnectedClients'[i] =
                           m_rightAdjacentServerConnectedClients[i]
              /\ m_connectedClients'[i] = m_connectedClients[i]
              /\ m_leftAdjacentServerConnection'[i] = m_leftAdjacentServerConnection[i]
              /\ m_rightAdjacentServerConnection'[i] = m_rightAdjacentServerConnection[i]
              /\ m_messageQueue'[i] = m_messageQueue[i]]_vars

\* C7 witness: both rosters have been set by syncs, to different lists, on a
\* node with connected clients.
C7_Witness ==
    \E i \in live :
        /\ Len(m_leftAdjacentServerConnectedClients[i]) = 1
        /\ Len(m_rightAdjacentServerConnectedClients[i]) = 2
        /\ m_connectedClients[i] # <<>>

\* C8: a node tags the sync for its left neighbour SYNC_LEFT and the sync for
\* its right neighbour SYNC_RIGHT, each carrying its connected clients'
\* identifiers; the node that receives a sync from its right neighbour stores
\* the payload as its right roster, one from its left neighbour as its left
\* roster, and leaves the other roster alone.
C8_SyncLabelConvention ==
    [][\A i \in live :
          /\ maintainToAdjacentServers(i) =>
                /\ m_leftAdjacentServerConnection[i] # NullPtr =>
                       \E k \in 1 .. Len(syncSent'[i]) :
                           syncSent'[i][k] = [endpoint |-> ServerEndpoint(i - 1),
                                              type |-> "SYNC_LEFT"]
                /\ m_rightAdjacentServerConnection[i] # NullPtr =>
                       \E k \in 1 .. Len(syncSent'[i]) :
                           syncSent'[i][k] = [endpoint |-> ServerEndpoint(i + 1),
                                              type |-> "SYNC_RIGHT"]
                /\ \A k \in 1 .. Len(syncSent'[i]) :
                       syncSent'[i][k].type =
                           IF syncSent'[i][k].endpoint = ServerEndpoint(i - 1)
                           THEN "SYNC_LEFT" ELSE "SYNC_RIGHT"
          /\ \A d \in net' \ net :
                (d.msg.type \in SyncTypes /\ d.from = ServerEndpoint(i)) =>
                    /\ d.to \in {i - 1, i + 1}
                    /\ d.msg.type = IF d.to = i - 1 THEN "SYNC_LEFT" ELSE "SYNC_RIGHT"
                    /\ d.msg.payload = IdentifiersOf(m_connectedClients[i])
          /\ \A d \in InFlight(i) :
                (d.msg.type \in SyncTypes /\ Handle(i, d)) =>
                    /\ d.from = ServerEndpoint(i + 1) =>
                          /\ m_rightAdjacentServerConnectedClients'[i] = d.msg.payload
                          /\ m_leftAdjacentServerConnectedClients'[i] =
                                 m_leftAdjacentServerConnectedClients[i]
                    /\ d.from = ServerEndpoint(i - 1) =>
                          /\ m_leftAdjacentServerConnectedClients'[i] = d.msg.payload
                          /\ m_rightAdjacentServerConnectedClients'[i] =
                                 m_rightAdjacentServerConnectedClients[i]
                    /\ d.from \in {ServerEndpoint(i - 1), ServerEndpoint(i + 1)}]_vars

\* C8 witness: in the chain, node 0 holds node 1's client list as its right
\* roster and node 1 holds node 0's as its left roster, and neither has stored
\* anything on the other side.
C8_Witness ==
    /\ live = ChainLive
    /\ m_connectedClients[0] # <<>>
    /\ Len(m_connectedClients[1]) = 2
    /\ m_rightAdjacentServerConnectedClients[0] = IdentifiersOf(m_connectedClients[1])
    /\ m_leftAdjacentServerConnectedClients[1] = IdentifiersOf(m_connectedClients[0])
    /\ m_leftAdjacentServerConnectedClients[0] = <<>>
    /\ m_rightAdjacentServerConnectedClients[1] = <<>>

\* ======================================================= registry invariants
RosterMembers(roster) == {roster[k] : k \in 1 .. Len(roster)}

LocalMembers(i) ==
    {m_connectedClients[i][k].identifier : k \in 1 .. Len(m_connectedClients[i])}

\* C9: on every node, no client identifier is in more than one of the
\* connected clients, the left roster and the right roster.
C9_RegistryDisjoint ==
    \A i \in live :
        /\ LocalMembers(i) \cap RosterMembers(m_leftAdjacentServerConnectedClients[i]) = {}
        /\ LocalMembers(i) \cap RosterMembers(m_rightAdjacentServerConnectedClients[i]) = {}
        /\ RosterMembers(m_leftAdjacentServerConnectedClients[i])
               \cap RosterMembers(m_rightAdjacentServerConnectedClients[i]) = {}

\* C10: no two entries of the connected clients carry the same identifier.
C10_UniqueIdentifiers ==
    \A i \in live :
        \A k, l \in 1 .. Len(m_connectedClients[i]) :
            k # l => m_connectedClients[i][k].identifier # m_connectedClients[i][l].identifier

\* ========================================================= loop properties
\* C11: every received Connect, Disconnect, Chat and PrivateMessage message
\* is appended to the message queue exactly once, in the same iteration that
\* applies its registry mutation, so the queue never holds a Connect or
\* Disconnect whose mutation is still to come; a sync message is never
\* appended; Chat and PrivateMessage leave the connected clients, both rosters
\* and both neighbour connections unchanged.
C11_IngestEnqueue ==
    [][\A i \in live : \A d \in Arrivals(i) :
          Handle(i, d) =>
              /\ d.msg.type \in ClientTypes =>
                    m_messageQueue'[i] = m_messageQueue[i] \o <<d.msg>>
              /\ d.msg.type = "CONNECTION" =>
                    m_connectedClients'[i] =
                        m_connectedClients[i] \o
                            <<remoteConnection(d.msg.source, d.from)>>
              /\ d.msg.type = "DISCONNECT" =>
                    m_connectedClients'[i] =
                        removeClientConnection(m_connectedClients[i], d.msg.source)
              /\ d.msg.type \in SyncTypes =>
                    m_messageQueue'[i] = m_messageQueue[i]
              /\ d.msg.type \in {"CHAT", "PRIVATE_MESSAGE"} =>
                    /\ m_connectedClients'[i] = m_connectedClients[i]
                    /\ m_leftAdjacentServerConnectedClients'[i] =
                           m_leftAdjacentServerConnectedClients[i]
                    /\ m_rightAdjacentServerConnectedClients'[i] =
                           m_rightAdjacentServerConnectedClients[i]
                    /\ m_leftAdjacentServerConnection'[i] =
                           m_leftAdjacentServerConnection[i]
                    /\ m_rightAdjacentServerConnection'[i] =
                           m_rightAdjacentServerConnection[i]]_vars

\* C11 witness: a Chat message is queued, not yet relayed, on a node that
\* holds a client, both rosters and both neighbour connections.
C11_Witness ==
    \E i \in live :
        /\ relayPc[i] = "front"
        /\ Len(m_messageQueue[i]) = 1
        /\ m_messageQueue[i][1].type = "CHAT"
        /\ m_connectedClients[i] # <<>>
        /\ m_leftAdjacentServerConnectedClients[i] # <<>>
        /\ m_rightAdjacentServerConnectedClients[i] # <<>>
        /\ m_leftAdjacentServerConnection[i] # NullPtr
        /\ m_rightAdjacentServerConnection[i] # NullPtr

\* No sync of the given tag and none to the given endpoint is among the sends
\* an iteration of maintainToAdjacentServers logged.
NothingSent(log, type, endpoint) ==
    \A k \in 1 .. Len(log) : log[k].type # type /\ log[k].endpoint # endpoint

\* C12: on a node whose left (right) neighbour index is not valid, the left
\* (right) neighbour connection is null before and after every step, and an
\* iteration of maintainToAdjacentServers sends no sync toward that side,
\* whatever a resolution would have returned.
C12_ChainBoundary ==
    [][\A i \in live :
          /\ ~leftAdjacentServerIndexIsValid(i - 1) =>
                /\ m_leftAdjacentServerConnection[i] = NullPtr
                /\ m_leftAdjacentServerConnection'[i] = NullPtr
                /\ maintainToAdjacentServers(i) =>
                       /\ NothingSent(syncSent'[i], "SYNC_LEFT", ServerEndpoint(i - 1))
                       /\ \A d \in net' \ net : d.msg.type # "SYNC_LEFT"
          /\ ~rightAdjacentServerIndexIsValid(i + 1) =>
                /\ m_rightAdjacentServerConnection[i] = NullPtr
                /\ m_rightAdjacentServerConnection'[i] = NullPtr
                /\ maintainToAdjacentServers(i) =>
                       /\ NothingSent(syncSent'[i], "SYNC_RIGHT", ServerEndpoint(i + 1))
                       /\ \A d \in net' \ net : d.msg.type # "SYNC_RIGHT"]_vars

\* C12 witness: the leftmost node has resolved its right neighbour and its
\* latest iteration sent one sync, to the right.
C12_Witness ==
    \E i \in live :
        /\ ~leftAdjacentServerIndexIsValid(i - 1)
        /\ m_leftAdjacentServerConnection[i] = NullPtr
        /\ m_rightAdjacentServerConnection[i] # NullPtr
        /\ syncSent[i] = <<[endpoint |-> ServerEndpoint(i + 1), type |-> "SYNC_RIGHT"]>>

\* The syncs an iteration of maintainToAdjacentServers started in the current
\* state builds for its left and for its right neighbour.
LeftSync(i) ==
    SyncSide(i, leftAdjacentServerIndexIsValid(i - 1), i - 1,
             m_leftAdjacentServerConnection[i], "SYNC_LEFT", TRUE, TRUE).sent

RightSync(i) ==
    SyncSide(i, rightAdjacentServerIndexIsValid(i + 1), i + 1,
             m_rightAdjacentServerConnection[i], "SYNC_RIGHT", TRUE, TRUE).sent

Payloads(attempts) == [k \in 1 .. Len(attempts) |-> attempts[k].msg.payload]

\* C13: with a connection recorded for a side, the sync built for that side
\* carries the identifiers of all connected clients, in list order; across a
\* step that leaves the connected clients as they are, the sync built before
\* and the sync built after carry the same payload; and applying a sync to
\* the rosters it has just been applied to changes nothing.
C13_SyncPayloadIdempotence ==
    [][\A i \in live :
          /\ m_leftAdjacentServerConnection[i] # NullPtr =>
                Payloads(LeftSync(i)) = <<IdentifiersOf(m_connectedClients[i])>>
          /\ m_rightAdjacentServerConnection[i] # NullPtr =>
                Payloads(RightSync(i)) = <<IdentifiersOf(m_connectedClients[i])>>
          /\ m_connectedClients'[i] = m_connectedClients[i] =>
                /\ m_leftAdjacentServerConnection[i] # NullPtr =>
                       Payloads(LeftSync(i))' = Payloads(LeftSync(i))
                /\ m_rightAdjacentServerConnection[i] # NullPtr =>
                       Payloads(RightSync(i))' = Payloads(RightSync(i))
          /\ \A d \in SyncArrivals(i) :
                Handle(i, d) =>
                    receiveClientsFromAdjacentServers(d.msg,
                        m_leftAdjacentServerConnectedClients'[i],
                        m_rightAdjacentServerConnectedClients'[i]) =
                    [left |-> m_leftAdjacentServerConnectedClients'[i],
                     right |-> m_rightAdjacentServerConnectedClients'[i]]]_vars

\* C13 witness: a node with two connected clients and both neighbour
\* connections has sent a sync to each side and holds two rosters that syncs
\* have filled.
C13_Witness ==
    \E i \in live :
        /\ Len(m_connectedClients[i]) = 2
        /\ Len(syncSent[i]) = 2
        /\ Len(Payloads(LeftSync(i) \o RightSync(i))) = 2
        /\ Len(m_leftAdjacentServerConnectedClients[i]) = 2
        /\ Len(m_rightAdjacentServerConnectedClients[i]) = 1

\* C16: no failure stops a loop: in every reachable state the three loops of
\* a node are still running unless its termination flag is set.
C16_NoErrorTerminatesLoop ==
    \A i \in live : crashed[i] => m_terminate[i]

\* ======================================================= thread properties
\* C14: while listenLoop is inside an append to, an erase from or a
\* replacement of a client list, relayLoop is not inside relayUDP's walk over
\* the client lists and maintainToAdjacentServers is not inside an iteration
\* that copies the connected clients into a sync.
C14_RegistrySerialized ==
    \A i \in live : Writing(i) => ~Iterating(i) /\ ~Building(i)

\* C15: while listenLoop is inside the push onto the message queue, relayLoop
\* performs none of empty(), front() and pop() on it.
C15_QueueHandOff ==
    [][\A i \in live :
          Pushing(i) => ~(RelayEmpty(i) \/ RelayFront(i) \/ RelayPop(i))]_vars

Returned(i) ==
    listenPc[i] = "return" /\ relayPc[i] = "return" /\ syncPc[i] = "return"

\* C17: once the termination flag of a running node is set, its three loops
\* go on to their exit without a further datagram: whenever none of the three
\* threads can take a step by itself, all three loops have returned.
C17_CooperativeShutdown ==
    \A i \in live :
        (m_terminate[i] /\ ~crashed[i] /\ ~ENABLED ThreadStep(i)) => Returned(i)

\* ===================================================== relayLoop properties
\* C18: the message queue changes only by an append at its tail or by the
\* removal of its front message; the relay loop hands the front message, and
\* no other, to relayUDP and relayBluetooth, and the front message leaves the
\* queue only in the step after that, so the messages are relayed in the
\* order they were queued, none skipped and none overtaken.
C18_DispatchOrder ==
    [][\A i \in live :
          /\ RelayStep(i) =>
                /\ m_messageQueue'[i] = m_messageQueue[i]
                /\ relayed'[i].sends =
                       relayUDP(Front(i), m_connectedClients[i],
                                m_leftAdjacentServerConnection[i],
                                m_leftAdjacentServerConnectedClients[i],
                                m_rightAdjacentServerConnection[i],
                                m_rightAdjacentServerConnectedClients[i]).sends
          /\ m_messageQueue'[i] # m_messageQueue[i] =>
                \/ /\ Len(m_messageQueue'[i]) = Len(m_messageQueue[i]) + 1
                   /\ SubSeq(m_messageQueue'[i], 1, Len(m_messageQueue[i])) =
                          m_messageQueue[i]
                   /\ relayPc'[i] = relayPc[i]
                \/ /\ relayPc[i] = "pop"
                   /\ relayPc'[i] = "front"
                   /\ m_messageQueue'[i] = Tail(m_messageQueue[i])
          /\ relayPc[i] = "front" /\ relayPc'[i] = "front" /\ m_messageQueue[i] # <<>> =>
                Head(m_messageQueue'[i]) = Front(i)]_vars

\* C18 witness: the first of two different queued messages has been relayed
\* and is still at the front; the second waits behind it.
C18_Witness ==
    \E i \in live :
        /\ relayPc[i] = "pop"
        /\ Len(m_messageQueue[i]) = 2
        /\ m_messageQueue[i][1] # m_messageQueue[i][2]
        /\ relayed[i].sends # <<>>

\* ================================== maintainToAdjacentServers properties
Logged(log, endpoint) == \E k \in 1 .. Len(log) : log[k].endpoint = endpoint

\* C19: no step takes a neighbour connection that is set back to null; an
\* iteration of the sync loop sends a sync to the endpoint of every
\* connection that is set, leaves each connection whose send failed as it
\* was, and sends again to every endpoint whose send failed in the iteration
\* before.
C19_SlotStability ==
    [][\A i \in live :
          /\ m_leftAdjacentServerConnection[i] # NullPtr =>
                m_leftAdjacentServerConnection'[i] = m_leftAdjacentServerConnection[i]
          /\ m_rightAdjacentServerConnection[i] # NullPtr =>
                m_rightAdjacentServerConnection'[i] = m_rightAdjacentServerConnection[i]
          /\ maintainToAdjacentServersLogged(i) =>
                /\ m_leftAdjacentServerConnection[i] # NullPtr =>
                       Logged(syncSent'[i], m_leftAdjacentServerConnection[i].endpoint)
                /\ m_rightAdjacentServerConnection[i] # NullPtr =>
                       Logged(syncSent'[i], m_rightAdjacentServerConnection[i].endpoint)
                /\ \A k \in 1 .. Len(syncFailed'[i]) :
                       /\ Logged(syncSent'[i], syncFailed'[i][k])
                       /\ syncFailed'[i][k] \in
                              {m_leftAdjacentServerConnection'[i].endpoint,
                               m_rightAdjacentServerConnection'[i].endpoint}
                /\ \A k \in 1 .. Len(syncFailed[i]) :
                       Logged(syncSent'[i], syncFailed[i][k])]_vars

\* C19 witness: the latest iteration of node 1 sent a sync to each neighbour,
\* the send to its left neighbour failed, and both connections are still set.
C19_Witness ==
    \E i \in live :
        /\ Len(syncSent[i]) = 2
        /\ syncFailed[i] = <<ServerEndpoint(i - 1)>>
        /\ m_leftAdjacentServerConnection[i] # NullPtr
        /\ m_leftAdjacentServerConnection[i].endpoint = ServerEndpoint(i - 1)
        /\ m_rightAdjacentServerConnection[i] # NullPtr

\* C20: a node whose connection to a neighbour is set keeps iterating its
\* sync loop, so that from the iteration after the resolution on a sync goes
\* to that neighbour every time: in every reachable state with a connection
\* set, a further iteration of maintainToAdjacentServers can take place.
C20_ReconnectionLiveness ==
    \A i \in live :
        (\/ m_leftAdjacentServerConnection[i] # NullPtr
         \/ m_rightAdjacentServerConnection[i] # NullPtr) =>
            ENABLED maintainToAdjacentServers(i)

\* C21: relayUDP sends to the right neighbour's endpoint only on a node whose
\* right connection is set and to the left neighbour's endpoint only on a node
\* whose left connection is set, and never reads the endpoint of a connection
\* that is null: no relay step sends to what a null pointer yields, and none
\* takes the process down.
C21_NoAbsentConnectionUse ==
    [][\A i \in live :
          /\ RelayStep(i) =>
                /\ SendsTo(relayed'[i].sends, {ServerEndpoint(i + 1)}) =>
                       m_rightAdjacentServerConnection[i] # NullPtr
                /\ SendsTo(relayed'[i].sends, {ServerEndpoint(i - 1)}) =>
                       m_leftAdjacentServerConnection[i] # NullPtr
                /\ ~SendsTo(relayed'[i].sends, {NullPtr.endpoint})
          /\ relayLoop(i) => crashed'[i] = crashed[i]]_vars

\* C22: a unicast message that reached a node over a server-to-server link is
\* not sent to a neighbour server again: a node that the resident client does
\* not talk to relays a message of that client to no neighbour's endpoint.
C22_NoForwardingLoop ==
    [][\A i \in live \ MiddleLive :
          (RelayStep(i) /\ Front(i).source = Resident) =>
              ~SendsTo(relayed'[i].sends, NeighborEndpoints(i))]_vars

====
